---- MODULE Spec2Model ----
(***************************************************************************)
(* Model of the pico-template actor layer: three actors (button,          *)
(* maintenance, realtime control) wrapped with their hardware and their    *)
(* channels (src/src/button_hw.rs, maintenance_hw.rs, control_hw.rs) and   *)
(* the three tasks that drive them on two cores (src/src/main.rs).         *)
(*                                                                         *)
(* Core 1 runs a cooperative executor: a wrapper step of the button or     *)
(* maintenance task runs from one await to the next, so it is one action.  *)
(* Core 0 runs the control task concurrently with core 1: its step is      *)
(* split at every channel operation (each try_receive is one critical     *)
(* section), so producer steps interleave between them.                    *)
(*                                                                         *)
(* The generated state machines (crate::generated) are not part of the     *)
(* sources at hand; ButtonActor_step, MaintenanceActor_step and            *)
(* RealtimeControlActor_step follow their documented contract.             *)
(***************************************************************************)
EXTENDS Integers, Sequences, FiniteSets

\* ---------------------------------------------------------------- bounds
\* Spec: number of button-wrapper steps, maintenance-wrapper steps and
\* control-loop iterations explored.
MaxBtnSteps == 6
MaxMntSteps == 4
MaxCtlIters == 2
\* SpecFull: the same, with producer runs long enough to overflow both channels.
FullBtnSteps == 7
FullMntSteps == 11
FullCtlIters == 1
\* SpecDrain: the same, with a button run long enough to refill its channel.
DrainBtnSteps == 7
DrainMntSteps == 2
DrainCtlIters == 1
\* SpecLive: a maintenance run long enough to overflow its channel and go on.
LiveBtnSteps == 2
LiveMntSteps == 12
LiveCtlIters == 1
\* SpecSched: short runs with the wrapper steps of core 1 split in two.
SchedBtnSteps == 3
SchedMntSteps == 3
SchedCtlIters == 1
\* Largest measured loop latency, in clock ticks.
MaxElapsed == 3
\* Resolution of the model clock: ticks per millisecond.
TicksPerMs == 2

\* ------------------------------------------------------ program constants
\* Channel<CriticalSectionRawMutex, ButtonMessage, 4>
BUTTON_CAP == 4
\* Channel<CriticalSectionRawMutex, MaintenanceMessage, 2>
MAINT_CAP == 2
\* CONTROL_PERIOD_MS: "Target 1kHz (1ms period)"
CONTROL_PERIOD_MS == 1

\* Duration::from_millis(CONTROL_PERIOD_MS as u64), in ticks
target_period == CONTROL_PERIOD_MS * TicksPerMs

VARIABLES
    \* ButtonActorHw (core 1)
    button,        \* ButtonActor: [state, pressed, press_count]
    pcB,           \* button_task: "sleep" (in Timer::after) or "ready" (timer fired)
    \* MaintenanceActorHw (core 1)
    maint,         \* MaintenanceActor: [state, tick_count, led_state, system_ok]
    led,           \* level of the LED output pin (TRUE = high)
    pcM,           \* maintenance_task: "ready" (about to step) or "sleep"
    \* ControlActorHw (core 0)
    control,       \* RealtimeControlActor: [cycle_count, enabled, error_flag]
    pcC,           \* control_task position
    elapsed,       \* last measured Instant::now() - loop_start
    \* channels
    btnChan,       \* BUTTON_TO_CONTROL contents, oldest first
    mntChan,       \* MAINTENANCE_TO_CONTROL contents, oldest first
    \* observation (history) variables
    hist,          \* levels sampled by the button wrapper, see Record
    btnAttempts,   \* try_send calls of the button wrapper: [msg, ok]
    mntAttempts,   \* try_send calls of the maintenance wrapper: [msg, ok]
    rcvB,          \* button messages received by the control wrapper, in order
    rcvM,          \* maintenance messages received by the control wrapper
    obs,           \* step counters and the control loop's log, see Init
    marks          \* marks taken while a control step runs, see Observe

vars == <<button, pcB, maint, led, pcM, control, pcC, elapsed, btnChan, mntChan,
          hist, btnAttempts, mntAttempts, rcvB, rcvM, obs, marks>>

coreB == <<button, pcB, maint, led, pcM, hist, btnAttempts, mntAttempts>>
coreA == <<control, pcC, elapsed, rcvB, rcvM>>

\* ------------------------------------------------------------- messages
Pressed == "Pressed"
Released == "Released"
ButtonMessage == {Pressed, Released}

MaintenanceMessage(a) ==
    [system_ok |-> a.system_ok, led_state |-> a.led_state, tick_count |-> a.tick_count]

\* ------------------------------------------------------------- channels
\* Channel::try_send: enqueue unless the channel holds N messages.
TrySendOk(ch, cap) == Len(ch) < cap

TrySend_unbounded(ch, cap, m) == Append(ch, m)

TrySend_overwrite(ch, cap, m) ==
    IF Len(ch) < cap THEN Append(ch, m) ELSE Append(Tail(ch), m)

TrySend(ch, cap, m) == IF TrySendOk(ch, cap) THEN Append(ch, m) ELSE ch

SendReady_blocking(ch, cap) == Len(ch) < cap

\* try_send returns at once, whatever the channel holds (send(..).await would
\* wait for room).
SendReady(ch, cap) == TRUE

ReceiveReady_blocking(ch) == Len(ch) > 0

\* try_receive returns at once, whatever the channel holds (receive().await
\* would wait for a message).
ReceiveReady(ch) == TRUE

\* Channel::try_receive: Ok(oldest message) unless the channel is empty.
TryReceiveOk(ch) == Len(ch) > 0

TryReceiveMsg_newest(ch) == ch[Len(ch)]

TryReceiveMsg(ch) == Head(ch)

TryReceiveRest_clear(ch) == <<>>

TryReceiveRest_keep(ch) == ch

TryReceiveRest(ch) == Tail(ch)

\* ----------------------------------------------------------- the actors
ButtonActor_new == [state |-> "Idle", pressed |-> FALSE, press_count |-> 0]

\* ButtonActor::step: one transition check on the latched input.
ButtonActor_step(a) ==
    CASE a.state = "Idle" /\ a.pressed ->
            [a EXCEPT !.state = "Notifying", !.press_count = @ + 1]
      [] a.state = "Notifying" /\ ~a.pressed ->
            [a EXCEPT !.state = "Released"]
      [] a.state = "Released" ->
            [a EXCEPT !.state = "Idle"]
      [] OTHER -> a

MaintenanceActor_new ==
    [state |-> "Idle", tick_count |-> 0, led_state |-> FALSE, system_ok |-> TRUE]

MaintenanceCycle(s) ==
    CASE s = "Idle" -> "Checking"
      [] s = "Checking" -> "Toggling"
      [] s = "Toggling" -> "Reporting"
      [] s = "Reporting" -> "Idle"

\* MaintenanceActor::step: one position in the fixed cycle, one tick.
MaintenanceActor_step(a) ==
    LET s == MaintenanceCycle(a.state)
    IN  [a EXCEPT !.state = s,
                  !.tick_count = @ + 1,
                  !.led_state = IF s = "Toggling" THEN ~@ ELSE @]

RealtimeControlActor_new == [cycle_count |-> 0, enabled |-> TRUE, error_flag |-> FALSE]

\* RealtimeControlActor::step: counts the cycle.
RealtimeControlActor_step(a) == [a EXCEPT !.cycle_count = @ + 1]

\* ---------------------------------------------------- observation helpers
Msgs(att) == [i \in 1..Len(att) |-> att[i].msg]

IsOk(x) == x.ok

\* The messages of the attempts that the channel accepted, in send order.
Delivered(att) == Msgs(SelectSeq(att, IsOk))

\* The attempts made after the first n.
After(att, n) == SubSeq(att, n + 1, Len(att))

\* The attempts numbered n+1 .. m.
Between(att, n, m) == SubSeq(att, n + 1, m)

Attempt(ch, cap, m) == [msg |-> m, ok |-> TrySendOk(ch, cap)]

\* The number of runs of equal levels in a sequence of levels.
Runs(s) ==
    IF s = <<>> THEN 0
    ELSE 1 + Cardinality({i \in 1..(Len(s) - 1) : s[i] # s[i + 1]})

\* hist.levels is the longest prefix of the levels sampled so far that has at
\* most two runs (a press held and then released is two runs); hist.cut says
\* that further samples followed it.
Record(h, level) ==
    IF ~h.cut /\ Runs(Append(h.levels, level)) <= 2
    THEN [h EXCEPT !.levels = Append(@, level)]
    ELSE [h EXCEPT !.cut = TRUE]

\* ------------------------------------------------------- ButtonActorHw
ButtonLatch_inverted(a, is_low) == [a EXCEPT !.pressed = ~is_low]

\* self.actor.pressed = self.button_pin.is_low()
ButtonLatch(a, is_low) == [a EXCEPT !.pressed = is_low]

ButtonOutput_swapped(old_state, new_state) ==
    IF old_state # new_state
    THEN CASE new_state = "Notifying" -> <<Released>>
           [] new_state = "Released" -> <<Pressed>>
           [] OTHER -> <<>>
    ELSE <<>>

ButtonOutput_level(old_state, new_state) ==
    CASE new_state = "Notifying" -> <<Pressed>>
      [] new_state = "Released" -> <<Released>>
      [] OTHER -> <<>>

\* The messages the wrapper sends for a step that took the actor from
\* old_state to new_state.
ButtonOutput(old_state, new_state) ==
    IF old_state # new_state
    THEN CASE new_state = "Notifying" -> <<Pressed>>
           [] new_state = "Released" -> <<Released>>
           [] OTHER -> <<>>
    ELSE <<>>

button_task_start_stepfirst == "ready"

\* button_task: loop { Timer::after(..).await; actor.step(); } begins asleep.
button_task_start == "sleep"

\* ButtonActorHw::step when button_pin.is_low() returns is_low.
ButtonActorHw_stepWith(is_low) ==
    /\ pcB = "ready"
    /\ LET a   == ButtonActor_step(ButtonLatch(button, is_low))
           out == ButtonOutput(button.state, a.state)
       IN  /\ button' = a
           /\ hist' = Record(hist, is_low)
           /\ IF out = <<>>
              THEN UNCHANGED <<btnChan, btnAttempts>>
              ELSE /\ SendReady(btnChan, BUTTON_CAP)
                   /\ btnChan' = TrySend(btnChan, BUTTON_CAP, out[1])
                   /\ btnAttempts' =
                        Append(btnAttempts, Attempt(btnChan, BUTTON_CAP, out[1]))
    /\ pcB' = "sleep"
    /\ obs' = [obs EXCEPT !.bSteps = @ + 1]
    /\ UNCHANGED <<maint, led, pcM, mntChan, mntAttempts>>
    /\ UNCHANGED coreA

\* ButtonActorHw::step, run by button_task when its timer has fired.
ButtonActorHw_step == \E is_low \in BOOLEAN : ButtonActorHw_stepWith(is_low)

\* button_task: Timer::after(BUTTON_DEBOUNCE_MS) completes.
ButtonWake ==
    /\ pcB = "sleep"
    /\ pcB' = "ready"
    /\ obs' = [obs EXCEPT !.bSleeps = @ + 1]
    /\ UNCHANGED <<button, maint, led, pcM, hist, btnAttempts, mntAttempts>>
    /\ UNCHANGED <<btnChan, mntChan>>
    /\ UNCHANGED coreA

\* ---------------------------------------------------- MaintenanceActorHw
MaintenanceActorHw_actor_rebuilt(a) == MaintenanceActor_step(MaintenanceActor_new)

MaintenanceActorHw_actor_twice(a) == MaintenanceActor_step(MaintenanceActor_step(a))

\* self.actor.step()
MaintenanceActorHw_actor(a) == MaintenanceActor_step(a)

MaintenanceLed_never(old_state, a, level) == level

\* The LED level after a step that took the actor from old_state to a.
MaintenanceLed(old_state, a, level) ==
    IF old_state # a.state /\ a.state = "Toggling" THEN a.led_state ELSE level

MaintenanceOutput_every(old_state, a) == <<MaintenanceMessage(a)>>

\* The messages the wrapper sends for a step that took the actor from
\* old_state to a.
MaintenanceOutput(old_state, a) ==
    IF old_state # a.state /\ a.state = "Reporting"
    THEN <<MaintenanceMessage(a)>>
    ELSE <<>>

\* maintenance_task: loop { actor.step(); Timer::after(..).await; } begins
\* with a step.
maintenance_task_start == "ready"

\* MaintenanceActorHw::step, run by maintenance_task.
MaintenanceActorHw_step ==
    /\ pcM = "ready"
    /\ LET a   == MaintenanceActorHw_actor(maint)
           out == MaintenanceOutput(maint.state, a)
       IN  /\ maint' = a
           /\ led' = MaintenanceLed(maint.state, a, led)
           /\ IF out = <<>>
              THEN UNCHANGED <<mntChan, mntAttempts>>
              ELSE /\ SendReady(mntChan, MAINT_CAP)
                   /\ mntChan' = TrySend(mntChan, MAINT_CAP, out[1])
                   /\ mntAttempts' =
                        Append(mntAttempts, Attempt(mntChan, MAINT_CAP, out[1]))
    /\ pcM' = "sleep"
    /\ obs' = [obs EXCEPT !.mSteps = @ + 1]
    /\ UNCHANGED <<button, pcB, btnChan, hist, btnAttempts>>
    /\ UNCHANGED coreA

\* maintenance_task: Timer::after(MAINTENANCE_PERIOD_MS) completes.
MaintenanceWake ==
    /\ pcM = "sleep"
    /\ pcM' = "ready"
    /\ obs' = [obs EXCEPT !.mSleeps = @ + 1]
    /\ UNCHANGED <<button, pcB, maint, led, hist, btnAttempts, mntAttempts>>
    /\ UNCHANGED <<btnChan, mntChan>>
    /\ UNCHANGED coreA

\* --------------------------------------------------------- ControlActorHw
WhileLet_once(ok, body, exit) == exit

\* `while let Ok(msg) = ch.try_receive() { .. }`: where control goes after one
\* evaluation of the loop head.
WhileLet(ok, body, exit) == IF ok THEN body ELSE exit

\* control_task: let loop_start = Instant::now(); actor.step() is entered.
ControlLoopStart ==
    /\ pcC = "loop_start"
    /\ pcC' = "recv_button"
    /\ elapsed' = 0
    /\ obs' = [obs EXCEPT !.iters = @ + 1, !.missLog = <<>>, !.slept = <<>>]
    /\ UNCHANGED <<control, rcvB, rcvM, btnChan, mntChan>>
    /\ UNCHANGED coreB

\* One evaluation of `while let Ok(msg) = self.from_button.try_receive()`.
ControlRecvButton ==
    /\ pcC = "recv_button"
    /\ ReceiveReady(btnChan)
    /\ IF TryReceiveOk(btnChan)
       THEN /\ rcvB' = Append(rcvB, TryReceiveMsg(btnChan))
            /\ btnChan' = TryReceiveRest(btnChan)
       ELSE UNCHANGED <<rcvB, btnChan>>
    /\ pcC' = WhileLet(TryReceiveOk(btnChan), "recv_button", "recv_maint")
    /\ UNCHANGED <<control, elapsed, rcvM, mntChan, obs>>
    /\ UNCHANGED coreB

\* One evaluation of `while let Ok(msg) = self.from_maintenance.try_receive()`.
ControlRecvMaint ==
    /\ pcC = "recv_maint"
    /\ ReceiveReady(mntChan)
    /\ IF TryReceiveOk(mntChan)
       THEN /\ rcvM' = Append(rcvM, TryReceiveMsg(mntChan))
            /\ mntChan' = TryReceiveRest(mntChan)
       ELSE UNCHANGED <<rcvM, mntChan>>
    /\ pcC' = WhileLet(TryReceiveOk(mntChan), "recv_maint", "actor_step")
    /\ UNCHANGED <<control, elapsed, rcvB, btnChan, obs>>
    /\ UNCHANGED coreB

\* self.actor.step(); ControlActorHw::step returns.
ControlActorStep ==
    /\ pcC = "actor_step"
    /\ control' = RealtimeControlActor_step(control)
    /\ pcC' = "deadline"
    /\ obs' = [obs EXCEPT !.stepsDone = @ + 1]
    /\ UNCHANGED <<elapsed, rcvB, rcvM, btnChan, mntChan>>
    /\ UNCHANGED coreB

\* elapsed < target_period
UnderPeriod(e, period) == e < period

SleepDuration_full(e, period) == period

\* Timer::after(target_period - elapsed)
SleepDuration(e, period) == period - e

\* (elapsed - target_period).as_micros()
Overrun(e, period) == e - period

\* control_task: elapsed is measured and compared with the period.
ControlDeadline ==
    /\ pcC = "deadline"
    /\ \E e \in 0..MaxElapsed :
         /\ elapsed' = e
         /\ IF UnderPeriod(e, target_period)
            THEN /\ pcC' = "sleep"
                 /\ obs' = [obs EXCEPT !.slept =
                                Append(@, SleepDuration(e, target_period))]
            ELSE /\ pcC' = "loop_start"
                 /\ obs' = [obs EXCEPT !.missLog =
                                Append(@, Overrun(e, target_period))]
    /\ UNCHANGED <<control, rcvB, rcvM, btnChan, mntChan>>
    /\ UNCHANGED coreB

\* control_task: Timer::after(target_period - elapsed) completes.
ControlWake ==
    /\ pcC = "sleep"
    /\ pcC' = "loop_start"
    /\ UNCHANGED <<control, elapsed, rcvB, rcvM, btnChan, mntChan, obs>>
    /\ UNCHANGED coreB

\* ------------------------------------------------------- the specification
\* Marks taken while ControlActorHw::step runs: how many messages had been
\* received (rcvB0, rcvM0) and how many sends attempted (attB0, attM0) when
\* each drain loop began, and how many sends had been attempted when it saw
\* its channel empty (markB, markM). They are cleared when the step returns.
NoMarks ==
    [rcvB0 |-> 0, attB0 |-> 0, markB |-> 0, rcvM0 |-> 0, attM0 |-> 0, markM |-> 0]

Observe ==
    marks' =
      CASE pcC = "loop_start" /\ pcC' = "recv_button" ->
             [NoMarks EXCEPT !.rcvB0 = Len(rcvB), !.attB0 = Len(btnAttempts)]
        [] pcC = "recv_button" /\ pcC' = "recv_maint" ->
             [marks EXCEPT !.markB = Len(btnAttempts),
                           !.rcvM0 = Len(rcvM), !.attM0 = Len(mntAttempts)]
        [] pcC = "recv_maint" /\ pcC' = "actor_step" ->
             [marks EXCEPT !.markM = Len(mntAttempts)]
        [] pcC = "actor_step" /\ pcC' = "deadline" -> NoMarks
        [] OTHER -> marks

\* The state once main has spawned the three tasks and each has built its
\* wrapper: LED created Level::Low, channels empty, button_task in its first
\* Timer::after, maintenance_task and control_task at the top of their loops.
Init ==
    /\ button = ButtonActor_new
    /\ pcB = button_task_start
    /\ maint = MaintenanceActor_new
    /\ led = FALSE
    /\ pcM = maintenance_task_start
    /\ control = RealtimeControlActor_new
    /\ pcC = "loop_start"
    /\ elapsed = 0
    /\ btnChan = <<>>
    /\ mntChan = <<>>
    /\ hist = [levels |-> <<>>, cut |-> FALSE]
    /\ btnAttempts = <<>>
    /\ mntAttempts = <<>>
    /\ rcvB = <<>>
    /\ rcvM = <<>>
    /\ obs = [bSteps |-> 0, bSleeps |-> 0, mSteps |-> 0, mSleeps |-> 0,
              iters |-> 0, stepsDone |-> 0, missLog |-> <<>>, slept |-> <<>>]
    /\ marks = NoMarks

Watch(watch) == IF watch THEN Observe ELSE UNCHANGED marks

\* The tasks run forever; exploration stops a task after the given number of
\* wrapper steps (button, maintenance) or loop iterations (control).
Step(btnSteps, mntSteps, ctlIters, watch) ==
    \/ obs.bSteps < btnSteps /\ ButtonWake /\ Watch(watch)
    \/ ButtonActorHw_step /\ Watch(watch)
    \/ obs.mSteps < mntSteps /\ MaintenanceActorHw_step /\ Watch(watch)
    \/ MaintenanceWake /\ Watch(watch)
    \/ obs.iters < ctlIters /\ ControlLoopStart /\ Watch(watch)
    \/ ControlRecvButton /\ Watch(watch)
    \/ ControlRecvMaint /\ Watch(watch)
    \/ ControlActorStep /\ Watch(watch)
    \/ ControlDeadline /\ Watch(watch)
    \/ ControlWake /\ Watch(watch)

Next == Step(MaxBtnSteps, MaxMntSteps, MaxCtlIters, TRUE)

Spec == Init /\ [][Next]_vars

NextFull == Step(FullBtnSteps, FullMntSteps, FullCtlIters, FALSE)

\* Long producer runs against few control iterations, so that both channels
\* fill up; the marks are not taken.
SpecFull == Init /\ [][NextFull]_vars

NextDrain == Step(DrainBtnSteps, DrainMntSteps, DrainCtlIters, TRUE)

\* A long button run against one marked control step.
SpecDrain == Init /\ [][NextDrain]_vars

NextLive == Step(LiveBtnSteps, LiveMntSteps, LiveCtlIters, FALSE)

\* Core 1's executor polls every task that is ready: button_task and
\* maintenance_task are each resumed when their timer has fired, and a step
\* that is started runs to its next await.
FairCoreB ==
    /\ WF_vars(obs.bSteps < LiveBtnSteps /\ ButtonWake /\ Watch(FALSE))
    /\ WF_vars(ButtonActorHw_step /\ Watch(FALSE))
    /\ WF_vars(obs.mSteps < LiveMntSteps /\ MaintenanceActorHw_step /\ Watch(FALSE))
    /\ WF_vars(MaintenanceWake /\ Watch(FALSE))

\* Core 0's executor runs control_task whenever it is ready.
FairCoreA ==
    /\ WF_vars(obs.iters < LiveCtlIters /\ ControlLoopStart /\ Watch(FALSE))
    /\ WF_vars(ControlRecvButton /\ Watch(FALSE))
    /\ WF_vars(ControlRecvMaint /\ Watch(FALSE))
    /\ WF_vars(ControlActorStep /\ Watch(FALSE))
    /\ WF_vars(ControlDeadline /\ Watch(FALSE))
    /\ WF_vars(ControlWake /\ Watch(FALSE))

\* The three tasks under fair scheduling of both cores.
SpecLive == Init /\ [][NextLive]_vars /\ FairCoreB /\ FairCoreA

\* ---------------------------------------------- core 1 at a finer grain
\* The wrapper steps of core 1 taken in two parts, so that a step in
\* progress is a state: pcB, pcM = "in_step" between the parts.
SameExecutor_preempt(other_pc) == TRUE

\* executor1 runs both tasks: it polls one when the other is not being
\* polled, and a poll runs to the task's next await.
SameExecutor(other_pc) == other_pc # "in_step"

\* ButtonActorHw::step up to the latch of the pin level.
ButtonActorHw_latch ==
    /\ pcB = "ready"
    /\ SameExecutor(pcM)
    /\ \E is_low \in BOOLEAN :
         /\ button' = ButtonLatch(button, is_low)
         /\ hist' = Record(hist, is_low)
    /\ pcB' = "in_step"
    /\ UNCHANGED <<btnChan, btnAttempts, obs>>
    /\ UNCHANGED <<maint, led, pcM, mntChan, mntAttempts>>
    /\ UNCHANGED coreA

\* ButtonActorHw::step from actor.step() to its return.
ButtonActorHw_rest ==
    /\ pcB = "in_step"
    /\ LET a   == ButtonActor_step(button)
           out == ButtonOutput(button.state, a.state)
       IN  /\ button' = a
           /\ IF out = <<>>
              THEN UNCHANGED <<btnChan, btnAttempts>>
              ELSE /\ SendReady(btnChan, BUTTON_CAP)
                   /\ btnChan' = TrySend(btnChan, BUTTON_CAP, out[1])
                   /\ btnAttempts' =
                        Append(btnAttempts, Attempt(btnChan, BUTTON_CAP, out[1]))
    /\ pcB' = "sleep"
    /\ obs' = [obs EXCEPT !.bSteps = @ + 1]
    /\ UNCHANGED <<hist, maint, led, pcM, mntChan, mntAttempts>>
    /\ UNCHANGED coreA

\* maintenance_task is polled: MaintenanceActorHw::step is entered.
MaintenanceActorHw_enter ==
    /\ pcM = "ready"
    /\ SameExecutor(pcB)
    /\ pcM' = "in_step"
    /\ UNCHANGED <<maint, led, mntChan, mntAttempts, obs>>
    /\ UNCHANGED <<button, pcB, btnChan, hist, btnAttempts>>
    /\ UNCHANGED coreA

\* MaintenanceActorHw::step from actor.step() to its return.
MaintenanceActorHw_rest ==
    /\ pcM = "in_step"
    /\ LET a   == MaintenanceActorHw_actor(maint)
           out == MaintenanceOutput(maint.state, a)
       IN  /\ maint' = a
           /\ led' = MaintenanceLed(maint.state, a, led)
           /\ IF out = <<>>
              THEN UNCHANGED <<mntChan, mntAttempts>>
              ELSE /\ SendReady(mntChan, MAINT_CAP)
                   /\ mntChan' = TrySend(mntChan, MAINT_CAP, out[1])
                   /\ mntAttempts' =
                        Append(mntAttempts, Attempt(mntChan, MAINT_CAP, out[1]))
    /\ pcM' = "sleep"
    /\ obs' = [obs EXCEPT !.mSteps = @ + 1]
    /\ UNCHANGED <<button, pcB, btnChan, hist, btnAttempts>>
    /\ UNCHANGED coreA

NextSched ==
    \/ obs.bSteps < SchedBtnSteps /\ ButtonWake /\ UNCHANGED marks
    \/ ButtonActorHw_latch /\ UNCHANGED marks
    \/ ButtonActorHw_rest /\ UNCHANGED marks
    \/ obs.mSteps < SchedMntSteps /\ MaintenanceActorHw_enter /\ UNCHANGED marks
    \/ MaintenanceActorHw_rest /\ UNCHANGED marks
    \/ MaintenanceWake /\ UNCHANGED marks
    \/ obs.iters < SchedCtlIters /\ ControlLoopStart /\ UNCHANGED marks
    \/ ControlRecvButton /\ UNCHANGED marks
    \/ ControlRecvMaint /\ UNCHANGED marks
    \/ ControlActorStep /\ UNCHANGED marks
    \/ ControlDeadline /\ UNCHANGED marks
    \/ ControlWake /\ UNCHANGED marks

\* The three tasks with steps in progress on both cores visible.
SpecSched == Init /\ [][NextSched]_vars

\* ================================================================ claims
\* A press held for h >= 1 samples and then released for r >= 1 samples.
PressThenRelease(levels) ==
    \E h \in 1..(Len(levels) - 1) :
        \A i \in 1..Len(levels) : levels[i] = (i <= h)

\* C1: when the levels sampled since start are a press held for h >= 1 steps
\* followed by r >= 1 steps not pressed, the button wrapper has sent exactly
\* one Pressed and then exactly one Released, both accepted by the channel,
\* and nothing else.
C1_OnePressOneRelease ==
    (~hist.cut /\ PressThenRelease(hist.levels)) =>
        btnAttempts = <<[msg |-> Pressed, ok |-> TRUE], [msg |-> Released, ok |-> TRUE]>>

C1_Witness ==
    /\ ~hist.cut
    /\ hist.levels = <<TRUE, TRUE, TRUE, FALSE, FALSE>>
    /\ Msgs(btnAttempts) = <<Pressed, Released>>

\* C2: on each channel, what the control wrapper has received followed by
\* what the channel still holds is exactly the sequence of messages the
\* channel accepted, in send order (so nothing is received twice, nothing
\* unsent is received, and order is kept); while nothing has been received
\* and at most `capacity` sends were made, the channel holds all of them.
C2_FifoSubsequence ==
    /\ rcvB \o btnChan = Delivered(btnAttempts)
    /\ rcvM \o mntChan = Delivered(mntAttempts)
    /\ (rcvB = <<>> /\ Len(btnAttempts) <= BUTTON_CAP) => btnChan = Msgs(btnAttempts)
    /\ (rcvM = <<>> /\ Len(mntAttempts) <= MAINT_CAP) => mntChan = Msgs(mntAttempts)

C2_Witness ==
    /\ \E i \in 1..Len(btnAttempts) : ~btnAttempts[i].ok
    /\ Len(rcvB) >= 2
    /\ btnChan # <<>>
    /\ Len(mntChan) = MAINT_CAP

Dropped(att) == {i \in 1..Len(att) : ~att[i].ok}

\* C3: a wrapper step that attempts a send while its channel is full still
\* completes (the task goes to its sleep), leaves the channel's contents
\* unchanged, records the send as refused, and keeps the actor's state
\* transition; the refused message is never delivered later: at all times the
\* messages received or still queued are exactly as many as were accepted.
C3_FullSendDropped ==
    /\ [][ /\ (Len(btnAttempts') > Len(btnAttempts) /\ Len(btnChan) = BUTTON_CAP) =>
                /\ btnChan' = btnChan
                /\ ~btnAttempts'[Len(btnAttempts')].ok
                /\ button'.state # button.state
                /\ obs'.bSteps = obs.bSteps + 1
                /\ pcB' = "sleep"
           /\ (Len(mntAttempts') > Len(mntAttempts) /\ Len(mntChan) = MAINT_CAP) =>
                /\ mntChan' = mntChan
                /\ ~mntAttempts'[Len(mntAttempts')].ok
                /\ maint'.state # maint.state
                /\ obs'.mSteps = obs.mSteps + 1
                /\ pcM' = "sleep" ]_vars
    /\ [](/\ Len(rcvB) + Len(btnChan) = Len(btnAttempts) - Cardinality(Dropped(btnAttempts))
          /\ Len(rcvM) + Len(mntChan) = Len(mntAttempts) - Cardinality(Dropped(mntAttempts)))

C3_Witness ==
    /\ Dropped(btnAttempts) # {}
    /\ Dropped(mntAttempts) # {}
    /\ button.state = "Notifying"
    /\ maint.state = "Reporting"
    /\ Len(btnChan) < BUTTON_CAP
    /\ Len(mntChan) < MAINT_CAP

\* C4: a button or maintenance wrapper step that leaves the actor's state as
\* it was sends nothing and does not touch the LED; a send is attempted only
\* in a step that changed the state, into Notifying or Released for the
\* button and into Reporting for maintenance, and the LED is written only by
\* a maintenance step that changed the state.
C4_EdgeTriggered ==
    [][ /\ (obs'.bSteps # obs.bSteps /\ button'.state = button.state) =>
              UNCHANGED <<btnChan, mntChan, btnAttempts, mntAttempts, led>>
        /\ (obs'.mSteps # obs.mSteps /\ maint'.state = maint.state) =>
              UNCHANGED <<btnChan, mntChan, btnAttempts, mntAttempts, led>>
        /\ btnAttempts' # btnAttempts =>
              /\ obs'.bSteps # obs.bSteps
              /\ button'.state # button.state
              /\ button'.state \in {"Notifying", "Released"}
        /\ mntAttempts' # mntAttempts =>
              /\ obs'.mSteps # obs.mSteps
              /\ maint'.state # maint.state
              /\ maint'.state = "Reporting"
        /\ led' # led =>
              /\ obs'.mSteps # obs.mSteps
              /\ maint'.state # maint.state ]_vars

C4_Witness ==
    /\ ~hist.cut
    /\ hist.levels = <<TRUE, TRUE, TRUE>>
    /\ button.state = "Notifying"
    /\ Msgs(btnAttempts) = <<Pressed>>
    /\ Len(mntAttempts) = 1
    /\ led

InControlStep == pcC \in {"recv_button", "recv_maint", "actor_step"}

\* C5 as stated: when ControlActor.step() is about to be invoked inside
\* ControlActorHw.step(), both channels are empty.
C5_EmptyAtActorStep ==
    pcC = "actor_step" => (btnChan = <<>> /\ mntChan = <<>>)

\* C5, amended: each drain loop ends only on finding its channel empty, so
\* from the end of a channel's drain loop until ControlActor.step() is
\* invoked that channel holds exactly the messages its producer got accepted
\* after the loop ended (none, hence an empty channel, when no producer step
\* ran in between).
C5_OnlyLateMessagesAtActorStep ==
    /\ pcC \in {"recv_maint", "actor_step"} =>
          btnChan = Delivered(After(btnAttempts, marks.markB))
    /\ pcC = "actor_step" =>
          mntChan = Delivered(After(mntAttempts, marks.markM))

C5_Witness ==
    /\ pcC = "actor_step"
    /\ Len(rcvB) - marks.rcvB0 >= 1
    /\ Len(rcvM) - marks.rcvM0 >= 1
    /\ Len(btnAttempts) = marks.markB
    /\ Len(mntAttempts) = marks.markM
    /\ btnChan = <<>>
    /\ mntChan = <<>>

\* Messages received so far by the control step that is running.
ReceivedB == Len(rcvB) - marks.rcvB0

ReceivedM == IF pcC = "recv_button" THEN 0 ELSE Len(rcvM) - marks.rcvM0

\* Sends the channel accepted while its drain loop of the running control
\* step was executing.
AcceptedDuringB ==
    Len(Delivered(Between(btnAttempts, marks.attB0,
                          IF pcC = "recv_button" THEN Len(btnAttempts) ELSE marks.markB)))

AcceptedDuringM ==
    IF pcC = "recv_button" THEN 0
    ELSE Len(Delivered(Between(mntAttempts, marks.attM0,
                               IF pcC = "recv_maint" THEN Len(mntAttempts) ELSE marks.markM)))

\* C6 as stated: one ControlActorHw.step() receives at most 4 button messages
\* and at most 2 maintenance messages, at most 6 in total.
C6_AtMostCapacityPerStep ==
    InControlStep =>
        /\ ReceivedB <= BUTTON_CAP
        /\ ReceivedM <= MAINT_CAP
        /\ ReceivedB + ReceivedM <= BUTTON_CAP + MAINT_CAP

\* C6, amended: one ControlActorHw.step() receives from each channel at most
\* its capacity plus the number of messages the producer got accepted while
\* that channel's drain loop was running (so at most 4 and 2 when no producer
\* step runs during the loops), and a drain loop ends at the first
\* try_receive that finds the channel empty.
C6_CapacityPlusConcurrentSends ==
    InControlStep =>
        /\ ReceivedB <= BUTTON_CAP + AcceptedDuringB
        /\ ReceivedM <= MAINT_CAP + AcceptedDuringM

C6_Witness ==
    /\ pcC = "actor_step"
    /\ ReceivedB = BUTTON_CAP + 1
    /\ AcceptedDuringB = 1
    /\ ReceivedM = 0

\* The state the maintenance cycle is in after n steps from Idle.
CycleAt(n) ==
    CASE n % 4 = 0 -> "Idle"
      [] n % 4 = 1 -> "Checking"
      [] n % 4 = 2 -> "Toggling"
      [] n % 4 = 3 -> "Reporting"

C8_DeadlineAccounting ==
    /\ control.cycle_count = obs.stepsDone
    /\ obs.stepsDone = IF InControlStep THEN obs.iters - 1 ELSE obs.iters
    /\ pcC \in {"loop_start", "recv_button", "recv_maint", "actor_step", "deadline", "sleep"}
    /\ (InControlStep \/ pcC = "deadline") => (obs.missLog = <<>> /\ obs.slept = <<>>)
    /\ (pcC \in {"sleep", "loop_start"} /\ obs.iters >= 1) =>
          /\ elapsed > target_period =>
                /\ obs.missLog = <<elapsed - target_period>>
                /\ obs.slept = <<>>
                /\ pcC = "loop_start"
          /\ elapsed < target_period =>
                /\ obs.missLog = <<>>
                /\ obs.slept = <<target_period - elapsed>>

C8_Witness ==
    /\ obs.iters = 2
    /\ pcC = "loop_start"
    /\ elapsed = target_period + 1
    /\ obs.missLog = <<1>>
    /\ control.cycle_count = 2

IsPrefix(p, q) == Len(p) <= Len(q) /\ p = SubSeq(q, 1, Len(p))

ThreeThree == <<TRUE, TRUE, TRUE, FALSE, FALSE, FALSE>>

\* C9: while the sampled levels are the first steps of pressed, pressed,
\* pressed, not pressed, not pressed, not pressed, what the control wrapper
\* has received followed by what is still queued is Pressed from the first
\* step on and Pressed, Released from the fourth step on; after all six
\* steps exactly these two sends were made, neither was refused, and once
\* the channel is drained the control wrapper has received exactly Pressed
\* then Released.
C9_EndToEnd ==
    (~hist.cut /\ IsPrefix(hist.levels, ThreeThree)) =>
        /\ rcvB \o btnChan =
              CASE Len(hist.levels) = 0 -> <<>>
                [] Len(hist.levels) \in 1..3 -> <<Pressed>>
                [] OTHER -> <<Pressed, Released>>
        /\ Msgs(btnAttempts) = rcvB \o btnChan
        /\ Dropped(btnAttempts) = {}
        /\ (hist.levels = ThreeThree /\ btnChan = <<>>) => rcvB = <<Pressed, Released>>

C9_Witness ==
    /\ ~hist.cut
    /\ hist.levels = ThreeThree
    /\ rcvB = <<Pressed, Released>>
    /\ btnChan = <<>>
    /\ pcC = "actor_step"
    /\ marks.rcvB0 = 1

\* C10 as stated: no wrapper step of either Core B task occurs before that
\* task's first sleep has elapsed.
C10_SleepBeforeFirstStep ==
    /\ obs.bSteps >= 1 => obs.bSleeps >= 1
    /\ obs.mSteps >= 1 => obs.mSleeps >= 1

\* C10, amended: the button task sleeps for its period and then steps, so its
\* k-th step comes after exactly k of its sleeps; the maintenance task steps
\* and then sleeps, so its first step comes before any of its sleeps and its
\* k-th step after exactly k - 1 of them; in both tasks exactly one sleep
\* lies between two consecutive steps.
C10_OneSleepBetweenSteps ==
    /\ pcB = "sleep" => obs.bSleeps = obs.bSteps
    /\ pcB = "ready" => obs.bSleeps = obs.bSteps + 1
    /\ pcM = "ready" => obs.mSleeps = obs.mSteps
    /\ pcM = "sleep" => obs.mSleeps = obs.mSteps - 1

C10_Witness ==
    /\ obs.bSteps = 2
    /\ obs.bSleeps = 2
    /\ obs.mSteps = 3
    /\ obs.mSleeps = 2

\* No task is at a point where its next step has to wait for a channel: a
\* started wrapper step can complete whatever the pin reads and whatever the
\* channels hold.
NoWait ==
    /\ pcB = "ready" =>
         \A is_low \in BOOLEAN : ENABLED ButtonActorHw_stepWith(is_low)
    /\ pcM = "ready" => ENABLED MaintenanceActorHw_step
    /\ pcC = "recv_button" => ENABLED ControlRecvButton
    /\ pcC = "recv_maint" => ENABLED ControlRecvMaint
    /\ pcC = "actor_step" => ENABLED ControlActorStep

C12_ChannelBounds ==
    /\ Len(btnChan) <= BUTTON_CAP
    /\ Len(mntChan) <= MAINT_CAP

\* Both channels are at capacity and each has refused a send.
C12_Witness ==
    /\ Len(btnChan) = BUTTON_CAP /\ Dropped(btnAttempts) # {}
    /\ Len(mntChan) = MAINT_CAP /\ Dropped(mntAttempts) # {}
\* Every level sampled since start was high: the button was never pressed.
NeverPressed == ~hist.cut /\ \A i \in 1..Len(hist.levels) : ~hist.levels[i]

\* C13: as long as every step since the default ButtonActor has sampled
\* pressed = false, after every step the state is Idle, press_count is 0 and
\* the wrapper has attempted no send.
C13_IdleWhileNotPressed ==
    NeverPressed =>
        /\ button.state = "Idle"
        /\ button.press_count = 0
        /\ btnAttempts = <<>>
        /\ btnChan = <<>>

\* All the steps of the run were taken with the button not pressed.
C13_Witness ==
    /\ NeverPressed
    /\ Len(hist.levels) = MaxBtnSteps
    /\ obs.bSteps = MaxBtnSteps
\* C14: the three actors start as ButtonActor {Idle, pressed false,
\* press_count 0}, MaintenanceActor {Idle, tick_count 0, led_state false,
\* system_ok true} and ControlActor {cycle_count 0, enabled true, error_flag
\* false}; each is built once, before its task's loop, and never rebuilt:
\* tick_count and cycle_count always count every step taken since the start
\* and press_count never goes back.
C14_BuiltOnce ==
    /\ button = [state |-> "Idle", pressed |-> FALSE, press_count |-> 0]
    /\ maint = [state |-> "Idle", tick_count |-> 0, led_state |-> FALSE,
                system_ok |-> TRUE]
    /\ control = [cycle_count |-> 0, enabled |-> TRUE, error_flag |-> FALSE]
    /\ [](maint.tick_count = obs.mSteps /\ control.cycle_count = obs.stepsDone)
    /\ [][button'.press_count >= button.press_count]_vars

\* Every actor has been stepped several times since it was built.
C14_Witness ==
    /\ obs.mSteps = MaxMntSteps /\ maint.tick_count = MaxMntSteps
    /\ obs.stepsDone = MaxCtlIters /\ control.cycle_count = MaxCtlIters
    /\ obs.bSteps = MaxBtnSteps /\ button.press_count = 2
\* C15: the control task logs a deadline miss only for an iteration whose
\* elapsed time is strictly greater than the period; an iteration whose
\* elapsed time equals the period logs no deadline-miss event.
C15_MissOnlyWhenExceeded ==
    obs.missLog # <<>> => elapsed > target_period

\* An iteration that took exactly the period: the miss is logged with an
\* overrun of 0 and the task does not sleep.
C15_Witness ==
    /\ pcC = "loop_start"
    /\ obs.stepsDone = 1
    /\ elapsed = target_period
    /\ obs.missLog = <<0>>
    /\ obs.slept = <<>>
\* A transition taken by a task of core 1.
CoreBMoved == pcB' # pcB \/ pcM' # pcM

\* A transition taken by control_task.
CoreAMoved == pcC' # pcC \/ rcvB' # rcvB \/ rcvM' # rcvM

\* C16: the two tasks of core 1 never overlap: no state has a button wrapper
\* step and a maintenance wrapper step both in progress. A control wrapper
\* step on core 0 does overlap with them, and what such interleaving can
\* touch on both sides is the two channels only: a transition of a core 1
\* task leaves everything control_task owns unchanged, a transition of
\* control_task leaves everything the core 1 tasks own unchanged and can
\* only shorten a channel, and the two core 1 tasks leave each other's actor,
\* LED and channel unchanged.
C16_CoreBNoOverlap ==
    /\ [](~(pcB = "in_step" /\ pcM = "in_step"))
    /\ [][/\ CoreBMoved => UNCHANGED coreA
          /\ CoreAMoved => UNCHANGED coreB
          /\ CoreAMoved =>
               /\ btnChan' = btnChan \/ (btnChan # <<>> /\ btnChan' = Tail(btnChan))
               /\ mntChan' = mntChan \/ (mntChan # <<>> /\ mntChan' = Tail(mntChan))
          /\ pcB' # pcB => UNCHANGED <<maint, led, pcM, mntChan, mntAttempts>>
          /\ pcM' # pcM => UNCHANGED <<button, pcB, btnChan, hist, btnAttempts>>
         ]_vars

\* A button step is in progress while the control step is between its two
\* drain loops, the maintenance task is ready to be polled, and each side
\* has already used the button channel.
C16_Witness ==
    /\ pcB = "in_step"
    /\ pcM = "ready"
    /\ pcC = "recv_maint"
    /\ btnAttempts # <<>>
    /\ rcvB # <<>>
ButtonStepped == obs'.bSteps # obs.bSteps

MaintenanceStepped == obs'.mSteps # obs.mSteps

ControlStepping == InControlStep /\ (pcC' # pcC \/ rcvB' # rcvB \/ rcvM' # rcvM)

\* C18: resource ownership is exclusive. Only a button wrapper step samples
\* the pin or sends on the button channel; only a maintenance wrapper step
\* sends on the maintenance channel or changes the LED; only a control
\* wrapper step receives, and a receive takes exactly the oldest message. A
\* step of one wrapper leaves the other two actors unchanged; a producer's
\* step leaves the other producer's channel unchanged, and button and
\* control steps leave the LED unchanged.
C18_ExclusiveOwnership ==
    [][/\ (hist' # hist \/ btnAttempts' # btnAttempts
            \/ Len(btnChan') > Len(btnChan)) => ButtonStepped
       /\ (led' # led \/ mntAttempts' # mntAttempts
            \/ Len(mntChan') > Len(mntChan)) => MaintenanceStepped
       /\ (rcvB' # rcvB \/ rcvM' # rcvM \/ Len(btnChan') < Len(btnChan)
            \/ Len(mntChan') < Len(mntChan)) => ControlStepping
       /\ rcvB' # rcvB =>
            /\ btnChan # <<>>
            /\ rcvB' = Append(rcvB, Head(btnChan))
            /\ btnChan' = Tail(btnChan)
       /\ rcvM' # rcvM =>
            /\ mntChan # <<>>
            /\ rcvM' = Append(rcvM, Head(mntChan))
            /\ mntChan' = Tail(mntChan)
       /\ ButtonStepped => UNCHANGED <<maint, control, mntChan, led>>
       /\ MaintenanceStepped => UNCHANGED <<button, control, btnChan>>
       /\ ControlStepping => UNCHANGED <<button, maint, led>>
      ]_vars

\* Every wrapper has used what it owns: the pin was sampled and both kinds of
\* message were sent, the LED was driven high, and the control wrapper has
\* received from both channels.
C18_Witness ==
    /\ hist.levels # <<>> /\ btnAttempts # <<>>
    /\ led /\ mntAttempts # <<>>
    /\ rcvB # <<>> /\ rcvM # <<>>
    /\ control.cycle_count = MaxCtlIters
\* C19: between maintenance steps the LED output level equals the actor's
\* led_state: both start low/false, and the step that flips led_state (the
\* one entering Toggling) drives the pin to the new value.
C19_LedFollowsLedState == led = maint.led_state

\* The LED has been driven high, low and high again.
C19_Witness ==
    /\ obs.mSteps = 10
    /\ maint.state = "Toggling"
    /\ led
    /\ maint.led_state
\* The send attempts that carried Pressed.
PressedAttempts == {i \in 1..Len(btnAttempts) : btnAttempts[i].msg = Pressed}

\* C20: press_count equals the number of Pressed send attempts, delivered or
\* refused, one being made in every step that changes the state to
\* Notifying; press_count changes, by one, only in a step that enters
\* Notifying; the send attempts alternate Pressed, Released, Pressed, ...
\* starting with Pressed.
C20_PressCount ==
    /\ [](button.press_count = Cardinality(PressedAttempts))
    /\ [](\A i \in 1..Len(btnAttempts) :
            btnAttempts[i].msg = IF i % 2 = 1 THEN Pressed ELSE Released)
    /\ [][/\ button'.press_count # button.press_count =>
               /\ button.state # "Notifying"
               /\ button'.state = "Notifying"
               /\ button'.press_count = button.press_count + 1
          /\ (button.state # "Notifying" /\ button'.state = "Notifying") =>
               /\ button'.press_count = button.press_count + 1
               /\ Len(btnAttempts') = Len(btnAttempts) + 1
               /\ btnAttempts'[Len(btnAttempts')].msg = Pressed
         ]_vars

\* Three presses were counted; the third Pressed was refused by the full
\* channel.
C20_Witness ==
    /\ button.press_count = 3
    /\ Len(btnAttempts) = 5
    /\ ~btnAttempts[5].ok
    /\ button.state = "Notifying"
====
